---- MODULE Spec2Model ----
(***************************************************************************)
(* Object-Identifier: the camera-and-identification control loop.          *)
(*                                                                         *)
(*   Spec        the identification loop of CameraView.tsx (ambient        *)
(*               polling, tap-to-identify, rate-limit cooldown)            *)
(*   SpecLive    the same loop with timers firing and the oracle answering *)
(*   SpecApp     App with its views, the shutter, the chat and the notice  *)
(*   SpecService the oracle client of services/aiService.ts                *)
(*   SpecCamera  the capture-session lifecycle of hooks/useCamera.ts       *)
(*   SpecDevices device selection of useCamera.ts over enumerated lists    *)
(*   SpecCrop    the crop arithmetic of handleVideoClick / identifyFrame   *)
(*                                                                         *)
(* One action is one task of the UI event loop: a handler or a callback,   *)
(* together with the render it causes and the effects of that render.      *)
(* Timers carry no clock: a pending timer may fire at any later moment,    *)
(* and an oracle response may arrive at any moment.                        *)
(***************************************************************************)
EXTENDS Integers, Sequences, FiniteSets, TLC

VARIABLES
  \* ---- CameraView.tsx (one mounted instance) and App's configError
  mounted, isRealtimeMode, isIdentifying, identifiedObject,
  isFocusedIdentification, focusIndicator, rateLimitError,
  realtimeTimers, realtimeTimeoutRef, focusedIdentTimeout, rateLimitTimeout,
  inflight, videoReady, hasContext, configError,
  \* ---- hooks/useCamera.ts and the platform's media devices
  camMounted, platformDevices, streams, pendingMedia, gumCalls, streamRef, probes,
  cameraError, devices, currentDeviceId, capabilities, isFlashOn, zoom, applies,
  \* ---- inputs and result of the crop computation
  videoWidth, videoHeight, rectWidth, rectHeight, tapX, tapY, crop,
  \* ---- App (view, capture, chat) and CameraView's shutter
  currentView, capturedImage, isLoading, messages, error, appCalls,
  captures, sends, isCapturing, captureTimer,
  \* ---- services/aiService.ts: the environment's keys, the client, a call
  viteKey, envKey, ai, requests, pending, rawMessage, thrown,
  \* ---- sw.js: the worker's life cycle, the cache storage, the network,
  \* ---- the fetch events it was handed
  swState, caches, online, fetchEvents

loopVars == <<mounted, isRealtimeMode, isIdentifying, identifiedObject,
              isFocusedIdentification, focusIndicator, rateLimitError,
              realtimeTimers, realtimeTimeoutRef, focusedIdentTimeout,
              rateLimitTimeout, inflight, videoReady, hasContext, configError>>

camVars == <<camMounted, platformDevices, streams, pendingMedia, gumCalls, streamRef, probes,
             cameraError, devices, currentDeviceId, capabilities, isFlashOn, zoom,
             applies>>

cropVars == <<videoWidth, videoHeight, rectWidth, rectHeight, tapX, tapY, crop>>

appVars == <<currentView, capturedImage, isLoading, messages, error, appCalls,
             captures, sends, isCapturing, captureTimer>>

svcVars == <<viteKey, envKey, ai, requests, pending, rawMessage, thrown>>

swVars == <<swState, caches, online, fetchEvents>>

vars == <<loopVars, camVars, cropVars, appVars, svcVars, swVars>>

Null == "null"

(***************************************************************************)
(* The identification loop controller (components/CameraView.tsx)          *)
(***************************************************************************)

\* what the oracle may answer to getQuickObjectName
ObjectNames == {"cup", "pen"}

\* places the user may tap
TapPoints == {"p1", "p2"}

\* how getQuickObjectName settles
Outcomes == {"ok", "config", "ratelimit", "transient"}

RateLimitMessage == "Request limit reached"
ConfigMessage == "API key not configured"

\* the closure of one run of the real-time effect: its isCancelled flag and
\* the isIdentifying its identifyFrame captured
Closure(cancelled, guard) == [cancelled |-> cancelled, guard |-> guard]

Call(scope, cancelled, guard) ==
  [scope |-> scope, cancelled |-> cancelled, guard |-> guard]

RemoveAt(s, i) == [j \in 1..(Len(s) - 1) |-> IF j < i THEN s[j] ELSE s[j + 1]]

\* identifyFrame's guard, with the isIdentifying of the render that made it
IdentifyFrameRefuses_NoInFlightGuard(closureIsIdentifying) == ~videoReady

IdentifyFrameRefuses(closureIsIdentifying) ==
  ~videoReady \/ closureIsIdentifying

\* identifyFrame up to its await: "refused" (guard), "nocontext" (no 2d
\* context: the finally clears the flag again) or "sent"
IdentifyFrameStart(closureIsIdentifying) ==
  IF IdentifyFrameRefuses(closureIsIdentifying) THEN "refused"
  ELSE IF ~hasContext THEN "nocontext"
  ELSE "sent"

\* (variant) the cleanup leaves the pending reschedule armed
ClearTimeout_Noop(timers, ref) == timers

\* clearTimeout(realtimeTimeoutRef.current)
ClearTimeout(timers, ref) == timers \ ref

\* the effect's cleanup: isCancelled = true for the running loop
CancelAll(S) == {Closure(TRUE, t.guard) : t \in S}

CancelCalls(calls) ==
  [i \in 1..Len(calls) |->
     IF calls[i].scope = "ambient"
     THEN Call("ambient", TRUE, calls[i].guard) ELSE calls[i]]

\* The render after a task's state updates, and the real-time effect when
\* one of its dependencies [isRealtimeMode, isFocusedIdentification] changed:
\* the previous run's cleanup, then the effect body.
Commit(mode, focused, identifying, object, timers, ref, calls) ==
  LET changed == mode # isRealtimeMode \/ focused # isFocusedIdentification
      wasActive == isRealtimeMode /\ ~isFocusedIdentification
      nowActive == mode /\ ~focused
      cleanup == changed /\ wasActive
      timersC == IF cleanup THEN CancelAll(ClearTimeout(timers, ref)) ELSE timers
      callsC == IF cleanup THEN CancelCalls(calls) ELSE calls
      start == IdentifyFrameStart(identifying)
  IN /\ isRealtimeMode' = mode
     /\ isFocusedIdentification' = focused
     /\ identifiedObject' = IF changed /\ ~nowActive /\ ~focused THEN Null ELSE object
     /\ IF changed /\ nowActive
        THEN IF start = "sent"
             THEN /\ isIdentifying' = TRUE
                  /\ inflight' = Append(callsC, Call("ambient", FALSE, identifying))
                  /\ realtimeTimers' = timersC
                  /\ realtimeTimeoutRef' = ref
             ELSE /\ isIdentifying' = identifying
                  /\ inflight' = callsC
                  /\ realtimeTimers' = timersC \cup {Closure(FALSE, identifying)}
                  /\ realtimeTimeoutRef' = {Closure(FALSE, identifying)}
        ELSE /\ isIdentifying' = identifying
             /\ inflight' = callsC
             /\ realtimeTimers' = timersC
             /\ realtimeTimeoutRef' = ref

\* a task that runs after the component unmounted: its state setters do
\* nothing, its timers and calls are real
CommitUnmounted(timers, ref, calls) ==
  /\ realtimeTimers' = timers
  /\ realtimeTimeoutRef' = ref
  /\ inflight' = calls
  /\ UNCHANGED <<isRealtimeMode, isFocusedIdentification, isIdentifying,
                 identifiedObject>>

\* the "Real-time AI" button: setIsRealtimeMode(prev => !prev)
ToggleRealtime ==
  /\ mounted
  /\ Commit(~isRealtimeMode, isFocusedIdentification, isIdentifying,
            identifiedObject, realtimeTimers, realtimeTimeoutRef, inflight)
  /\ UNCHANGED <<camVars, cropVars, svcVars, swVars, appVars, mounted, focusIndicator, rateLimitError, focusedIdentTimeout,
                 rateLimitTimeout, videoReady, hasContext, configError>>

\* setTimeout(identifyAndRepeat, 5000) fires: identifyAndRepeat of the
\* closure that armed it
RealtimeTimerFire ==
  \E t \in realtimeTimers :
    LET start == IdentifyFrameStart(t.guard)
        rest == realtimeTimers \ {t}
        sent == start = "sent"
        rearm == ~sent /\ ~t.cancelled
        identifying1 == IF sent THEN TRUE ELSE isIdentifying
        timers1 == IF rearm THEN rest \cup {t} ELSE rest
        ref1 == IF rearm THEN {t} ELSE realtimeTimeoutRef
        calls1 == IF sent THEN Append(inflight, Call("ambient", t.cancelled, t.guard))
                  ELSE inflight
    IN /\ IF mounted
          THEN Commit(isRealtimeMode, isFocusedIdentification, identifying1,
                      identifiedObject, timers1, ref1, calls1)
          ELSE CommitUnmounted(timers1, ref1, calls1)
       /\ UNCHANGED <<camVars, cropVars, svcVars, swVars, appVars, mounted, focusIndicator, rateLimitError, focusedIdentTimeout,
                      rateLimitTimeout, videoReady, hasContext, configError>>

\* (variant) the guard looks at the mode only
HandleVideoClickDrops_IgnoresInFlight == ~isRealtimeMode

\* handleVideoClick's guard (the video element exists: it was tapped)
HandleVideoClickDrops == ~isRealtimeMode \/ isIdentifying

\* a tap on the video at p
HandleVideoClick(p) ==
  /\ mounted
  /\ IF HandleVideoClickDrops
     THEN UNCHANGED vars
     ELSE LET sent == IdentifyFrameStart(isIdentifying) = "sent"
              identifying1 == IF sent THEN TRUE ELSE isIdentifying
              calls1 == IF sent THEN Append(inflight, Call("focused", FALSE, isIdentifying))
                        ELSE inflight
          IN /\ focusIndicator' = p
             /\ focusedIdentTimeout' = IF sent THEN focusedIdentTimeout ELSE TRUE
             /\ Commit(isRealtimeMode, TRUE, identifying1, identifiedObject,
                       realtimeTimers, realtimeTimeoutRef, calls1)
             /\ UNCHANGED <<camVars, cropVars, svcVars, swVars, appVars, mounted, rateLimitError, rateLimitTimeout, videoReady,
                            hasContext, configError>>

\* identifyFrame's catch: which errors switch real-time mode off
ModeAfterCatch_KeepsOnConfigError(outcome, mode) ==
  IF outcome = "ratelimit" THEN FALSE ELSE mode

ModeAfterCatch_KeepsOnRateLimit(outcome, mode) ==
  IF outcome = "config" THEN FALSE ELSE mode

ModeAfterCatch_StopsOnAnyError(outcome, mode) ==
  IF outcome = "ok" THEN mode ELSE FALSE

ModeAfterCatch(outcome, mode) ==
  IF outcome \in {"config", "ratelimit"} THEN FALSE ELSE mode

\* (variant) the flag is cleared after the try only, not in a finally
IdentifyingAfterSettle_StuckOnError(outcome) == outcome # "ok"

\* identifyFrame's finally: setIsIdentifying(false) on every exit path
IdentifyingAfterSettle(outcome) == FALSE

\* the oracle answers call i: the rest of identifyFrame (result or catch,
\* finally), then the caller's continuation (identifyAndRepeat re-arms,
\* handleVideoClick starts the hold), then the render
Settle(i, outcome, name) ==
  LET c == inflight[i]
      rest == RemoveAt(inflight, i)
      object1 == IF outcome = "ok" THEN name ELSE identifiedObject
      mode1 == ModeAfterCatch(outcome, isRealtimeMode)
      rearm == c.scope = "ambient" /\ ~c.cancelled
      cl == Closure(c.cancelled, c.guard)
      timers1 == IF rearm THEN realtimeTimers \cup {cl} ELSE realtimeTimers
      ref1 == IF rearm THEN {cl} ELSE realtimeTimeoutRef
  IN /\ configError' = IF outcome = "config" THEN ConfigMessage ELSE configError
     /\ rateLimitError' = IF outcome = "ratelimit" /\ mounted
                          THEN RateLimitMessage ELSE rateLimitError
     /\ rateLimitTimeout' = IF outcome = "ratelimit" THEN TRUE ELSE rateLimitTimeout
     /\ focusedIdentTimeout' = IF c.scope = "focused" THEN TRUE ELSE focusedIdentTimeout
     /\ IF mounted
        THEN Commit(mode1, isFocusedIdentification, IdentifyingAfterSettle(outcome),
                    object1, timers1, ref1, rest)
        ELSE CommitUnmounted(timers1, ref1, rest)
     /\ UNCHANGED <<camVars, cropVars, svcVars, swVars, appVars, mounted, focusIndicator, videoReady, hasContext>>

OracleResponds ==
  \E i \in 1..Len(inflight), outcome \in Outcomes, name \in ObjectNames :
    Settle(i, outcome, name)

\* the hold of a focused result ends: setIsFocusedIdentification(false)
FocusedHoldExpires ==
  /\ focusedIdentTimeout
  /\ focusedIdentTimeout' = FALSE
  /\ IF mounted
     THEN Commit(isRealtimeMode, FALSE, isIdentifying, identifiedObject,
                 realtimeTimers, realtimeTimeoutRef, inflight)
     ELSE CommitUnmounted(realtimeTimers, realtimeTimeoutRef, inflight)
  /\ UNCHANGED <<camVars, cropVars, svcVars, swVars, appVars, mounted, focusIndicator, rateLimitError, rateLimitTimeout,
                 videoReady, hasContext, configError>>

\* (variant) the cooldown's end also switches real-time mode back on
RateLimitCooldownExpires_Resumes ==
  /\ rateLimitTimeout
  /\ rateLimitTimeout' = FALSE
  /\ rateLimitError' = IF mounted THEN Null ELSE rateLimitError
  /\ IF mounted
     THEN Commit(TRUE, isFocusedIdentification, isIdentifying, identifiedObject,
                 realtimeTimers, realtimeTimeoutRef, inflight)
     ELSE CommitUnmounted(realtimeTimers, realtimeTimeoutRef, inflight)
  /\ UNCHANGED <<camVars, cropVars, svcVars, swVars, appVars, mounted, focusIndicator, focusedIdentTimeout, videoReady,
                 hasContext, configError>>

\* the rate-limit cooldown ends: setRateLimitError(null)
RateLimitCooldownExpires ==
  /\ rateLimitTimeout
  /\ rateLimitTimeout' = FALSE
  /\ rateLimitError' = IF mounted THEN Null ELSE rateLimitError
  /\ UNCHANGED <<camVars, cropVars, svcVars, swVars, appVars, mounted, isRealtimeMode, isIdentifying, identifiedObject,
                 isFocusedIdentification, focusIndicator, realtimeTimers,
                 realtimeTimeoutRef, focusedIdentTimeout, inflight, videoReady,
                 hasContext, configError>>

\* the focus marker's 2 s timer
FocusIndicatorExpires ==
  /\ mounted
  /\ focusIndicator # Null
  /\ focusIndicator' = Null
  /\ UNCHANGED <<camVars, cropVars, svcVars, swVars, appVars, mounted, isRealtimeMode, isIdentifying, identifiedObject,
                 isFocusedIdentification, rateLimitError, realtimeTimers,
                 realtimeTimeoutRef, focusedIdentTimeout, rateLimitTimeout,
                 inflight, videoReady, hasContext, configError>>

\* the video element gains or loses its frame size (stream starts, stops)
VideoReadyChanges ==
  /\ mounted
  /\ videoReady' = ~videoReady
  /\ UNCHANGED <<camVars, cropVars, svcVars, swVars, appVars, mounted, isRealtimeMode, isIdentifying, identifiedObject,
                 isFocusedIdentification, focusIndicator, rateLimitError,
                 realtimeTimers, realtimeTimeoutRef, focusedIdentTimeout,
                 rateLimitTimeout, inflight, hasContext, configError>>

\* CameraView unmounts (close, capture): the effects' cleanups run, the
\* instance's state and refs go with it, its timers and calls stay
UnmountCameraView ==
  /\ mounted
  /\ mounted' = FALSE
  /\ LET active == isRealtimeMode /\ ~isFocusedIdentification
     IN /\ realtimeTimers' =
             IF active
             THEN CancelAll(ClearTimeout(realtimeTimers, realtimeTimeoutRef))
             ELSE realtimeTimers
        /\ inflight' = IF active THEN CancelCalls(inflight) ELSE inflight
  /\ rateLimitTimeout' = FALSE
  /\ isRealtimeMode' = FALSE
  /\ isIdentifying' = FALSE
  /\ identifiedObject' = Null
  /\ isFocusedIdentification' = FALSE
  /\ focusIndicator' = Null
  /\ rateLimitError' = Null
  /\ realtimeTimeoutRef' = {}
  /\ UNCHANGED <<camVars, cropVars, svcVars, swVars, focusedIdentTimeout, videoReady, hasContext,
                 configError>>

Unmount == UnmountCameraView /\ UNCHANGED appVars

NextLoop ==
  \/ ToggleRealtime
  \/ RealtimeTimerFire
  \/ \E p \in TapPoints : HandleVideoClick(p)
  \/ OracleResponds
  \/ FocusedHoldExpires
  \/ RateLimitCooldownExpires
  \/ FocusIndicatorExpires
  \/ VideoReadyChanges
  \/ Unmount

(***************************************************************************)
(* The capture session (hooks/useCamera.ts) and the platform's devices     *)
(*                                                                         *)
(* Device ids are positive numbers, 0 stands for undefined / null.  Zoom   *)
(* levels are in tenths (10 is zoom 1, 40 is zoom 4, a step of 5 is 0.5).  *)
(* A label is the sequence of its characters.                              *)
(***************************************************************************)

\* getUserMedia calls one hook instance may make in a run
MaxOpens == 4

\* longest enumerated device list
MaxDevices == 3

NoZoom == [min |-> 0, max |-> 0, step |-> 0]

Device(kind, label, id, torch, zoomCap) ==
  [kind |-> kind, label |-> label, deviceId |-> id, torch |-> torch, zoomCap |-> zoomCap]

LabelFront == <<"F", "r", "o", "n", "t">>
LabelBackCap == <<"B", "a", "c", "k">>
LabelBackLower == <<"c", "a", "m", " ", "b", "a", "c", "k">>
LabelBackUpper == <<"B", "A", "C", "K">>
LabelRear == <<"r", "e", "a", "r">>
LabelBac == <<"b", "a", "c">>
LabelMic == <<"M", "i", "c">>

DeviceLabels == {LabelFront, LabelBackCap, LabelBackLower, LabelBackUpper, LabelRear, LabelBac}

\* String.prototype.toLowerCase, on the letters the labels use
LowerChar(c) ==
  CASE c = "A" -> "a" [] c = "B" -> "b" [] c = "C" -> "c" [] c = "F" -> "f"
    [] c = "K" -> "k" [] c = "M" -> "m"
    [] OTHER -> c

ToLowerCase(str) == [i \in 1..Len(str) |-> LowerChar(str[i])]

\* String.prototype.includes
Includes(str, sub) ==
  \E i \in 0..(Len(str) - Len(sub)) : SubSeq(str, i + 1, i + Len(sub)) = sub

\* the platforms the session lifecycle is explored on
FrontCam == Device("videoinput", LabelFront, 1, FALSE, NoZoom)
BackCam == Device("videoinput", LabelBackCap, 2, TRUE, [min |-> 10, max |-> 40, step |-> 5])
Microphone == Device("audioinput", LabelMic, 3, FALSE, NoZoom)

CameraPlatforms == {<<Microphone, FrontCam, BackCam>>, <<FrontCam>>, <<Microphone>>}

\* enumerateDevices() gives every device an id of its own
WithIds(list) == [i \in 1..Len(list) |-> [list[i] EXCEPT !.deviceId = i]]

\* the device lists device selection is explored on
DeviceLists ==
  {WithIds(l) : l \in UNION {[1..n -> [kind : {"videoinput", "audioinput"},
                                       label : DeviceLabels, deviceId : {0},
                                       torch : {FALSE}, zoomCap : {NoZoom}]]
                             : n \in 0..MaxDevices}}


DefaultCapabilities ==
  [flash |-> FALSE, zoomSupported |-> FALSE, min |-> 10, max |-> 10, step |-> 1]

Pending(by, dev) == [by |-> by, dev |-> dev]

Stream(dev, live, by) == [dev |-> dev, live |-> live, by |-> by]

\* allDevices.filter(d => d.kind === 'videoinput')
IsVideoInput(d) == d.kind = "videoinput"

VideoDevices(allDevices) == SelectSeq(allDevices, IsVideoInput)

\* d.label.toLowerCase().includes('back')
IsBackCamera_CaseSensitive(d) == Includes(d.label, <<"b", "a", "c", "k">>)

IsBackCamera(d) == Includes(ToLowerCase(d.label), <<"b", "a", "c", "k">>)

\* Array.prototype.find: the first element that passes, 0 for undefined
FindBackCamera(videoDevices) ==
  LET hits == {i \in 1..Len(videoDevices) : IsBackCamera(videoDevices[i])}
  IN IF hits = {} THEN 0 ELSE CHOOSE i \in hits : \A j \in hits : i <= j

\* backCamera?.deviceId || videoDevices[0].deviceId
InitialDeviceId(videoDevices) ==
  LET b == FindBackCamera(videoDevices)
  IN IF b # 0 /\ videoDevices[b].deviceId # 0
     THEN videoDevices[b].deviceId
     ELSE videoDevices[1].deviceId

\* devices.findIndex(d => d.deviceId === currentDeviceId), 0-based, -1 if none
FindIndex(devs, id) ==
  LET hits == {i \in 1..Len(devs) : devs[i].deviceId = id}
  IN IF hits = {} THEN -1 ELSE (CHOOSE i \in hits : \A j \in hits : i <= j) - 1

\* (variant) the index stops at the last device instead of wrapping
NextDeviceId_NoWrap(devs, id) ==
  devs[(IF FindIndex(devs, id) + 1 < Len(devs) THEN FindIndex(devs, id) + 1
        ELSE Len(devs) - 1) + 1].deviceId

\* switchCamera's target: devices[(currentIndex + 1) % devices.length]
NextDeviceId(devs, id) == devs[((FindIndex(devs, id) + 1) % Len(devs)) + 1].deviceId

\* the video element is rendered (videoRef.current is set) while the hook's
\* component is mounted and shows no camera error
VideoElementPresent(camError) == camMounted /\ camError = Null

\* stopCamera: stop every track of the held stream, forget it
StopTracks(strs, ref) ==
  [i \in 1..Len(strs) |-> IF i = ref THEN Stream(strs[i].dev, FALSE, strs[i].by) ELSE strs[i]]

\* startCamera(), called by the device effect or by "Try Again", with the
\* requests still pending: stopCamera, clear the error and the flash flag,
\* then getUserMedia for the selected device (none selected: return)
StartCamera(dev, pend) ==
  /\ streams' = StopTracks(streams, streamRef)
  /\ streamRef' = 0
  /\ cameraError' = Null
  /\ isFlashOn' = FALSE
  /\ pendingMedia' = IF dev = 0 THEN pend ELSE Append(pend, Pending("start", dev))
  /\ gumCalls' = IF dev = 0 THEN gumCalls ELSE gumCalls + 1

\* the message startCamera's catch gives a DOMException name
OpenErrorMessage(name) ==
  CASE name \in {"NotAllowedError", "PermissionDeniedError"} -> "denied"
    [] name \in {"NotFoundError", "DevicesNotFoundError"} -> "notFound"
    [] name \in {"NotReadableError", "TrackStartError"} -> "inUse"
    [] OTHER -> "generic"

ErrorNames == {"NotAllowedError", "NotFoundError", "NotReadableError", "AbortError"}

\* the mount effect's getUserMedia({video: true}) resolves: the stream is
\* dropped as it is, enumerateDevices() is awaited next
PermissionGranted ==
  \E i \in 1..Len(pendingMedia) :
    /\ pendingMedia[i].by = "permission"
    /\ streams' = Append(streams, Stream(0, TRUE, "permission"))
    /\ pendingMedia' = [pendingMedia EXCEPT ![i] = Pending("list", 0)]
    /\ UNCHANGED <<loopVars, cropVars, svcVars, swVars, appVars, applies, camMounted, platformDevices, gumCalls, streamRef,
                   probes, cameraError, devices, currentDeviceId, capabilities,
                   isFlashOn, zoom>>

\* getUserMedia({video: true}) or enumerateDevices() rejects
EnumerationFails ==
  \E i \in 1..Len(pendingMedia), name \in ErrorNames :
    /\ pendingMedia[i].by \in {"permission", "list"}
    /\ pendingMedia' = RemoveAt(pendingMedia, i)
    /\ cameraError' = IF ~camMounted THEN cameraError
                      ELSE IF name = "NotAllowedError" THEN "denied" ELSE "couldNotList"
    /\ UNCHANGED <<loopVars, cropVars, svcVars, swVars, appVars, applies, camMounted, platformDevices, streams, gumCalls,
                   streamRef, probes, devices, currentDeviceId, capabilities,
                   isFlashOn, zoom>>

\* enumerateDevices() resolves: setDevices, setCurrentDeviceId, and the
\* device effect of the next render starts the camera
DevicesListed ==
  \E i \in 1..Len(pendingMedia) :
    LET videoDevices == VideoDevices(platformDevices)
        rest == RemoveAt(pendingMedia, i)
    IN /\ pendingMedia[i].by = "list"
       /\ IF ~camMounted
          THEN /\ pendingMedia' = rest
               /\ UNCHANGED <<streams, gumCalls, streamRef, cameraError, devices,
                              currentDeviceId, isFlashOn>>
          ELSE IF Len(videoDevices) > 0
          THEN /\ devices' = videoDevices
               /\ currentDeviceId' = InitialDeviceId(videoDevices)
               /\ StartCamera(InitialDeviceId(videoDevices), rest)
          ELSE /\ pendingMedia' = rest
               /\ cameraError' = "noCamera"
               /\ UNCHANGED <<streams, gumCalls, streamRef, devices, currentDeviceId,
                              isFlashOn>>
       /\ UNCHANGED <<loopVars, cropVars, svcVars, swVars, appVars, applies, camMounted, platformDevices, probes,
                      capabilities, zoom>>

\* startCamera's getUserMedia resolves: the stream is kept if the video
\* element is there, and its capabilities are probed 500 ms later
OpenResolves ==
  \E i \in 1..Len(pendingMedia) :
    LET id == Len(streams) + 1
        kept == VideoElementPresent(cameraError)
    IN /\ pendingMedia[i].by = "start"
       /\ pendingMedia' = RemoveAt(pendingMedia, i)
       /\ streams' = Append(streams, Stream(pendingMedia[i].dev, TRUE, "start"))
       /\ streamRef' = IF kept THEN id ELSE streamRef
       /\ probes' = IF kept THEN probes \cup {id} ELSE probes
       /\ UNCHANGED <<loopVars, cropVars, svcVars, swVars, appVars, applies, camMounted, platformDevices, gumCalls,
                      cameraError, devices, currentDeviceId, capabilities, isFlashOn,
                      zoom>>

\* startCamera's getUserMedia rejects
OpenFails ==
  \E i \in 1..Len(pendingMedia), name \in ErrorNames :
    /\ pendingMedia[i].by = "start"
    /\ pendingMedia' = RemoveAt(pendingMedia, i)
    /\ cameraError' = IF camMounted THEN OpenErrorMessage(name) ELSE cameraError
    /\ UNCHANGED <<loopVars, cropVars, svcVars, swVars, appVars, applies, camMounted, platformDevices, streams, gumCalls,
                   streamRef, probes, devices, currentDeviceId, capabilities,
                   isFlashOn, zoom>>

\* switchCamera; the device effect's cleanup (stopCamera) and startCamera
\* run with the render that follows
SwitchCamera ==
  /\ camMounted /\ cameraError = Null
  /\ gumCalls < MaxOpens
  /\ IF Len(devices) < 2
     THEN UNCHANGED camVars
     ELSE /\ currentDeviceId' = NextDeviceId(devices, currentDeviceId)
          /\ StartCamera(NextDeviceId(devices, currentDeviceId), pendingMedia)
          /\ UNCHANGED <<camMounted, platformDevices, probes, devices, capabilities, zoom>>
  /\ UNCHANGED <<loopVars, cropVars, svcVars, swVars, appVars, applies>>

\* the "Try Again" button of the error screen: startCamera()
TryAgain ==
  /\ camMounted /\ cameraError # Null
  /\ gumCalls < MaxOpens
  /\ StartCamera(currentDeviceId, pendingMedia)
  /\ UNCHANGED <<loopVars, cropVars, svcVars, swVars, appVars, applies, camMounted, platformDevices, probes, devices,
                 currentDeviceId, capabilities, zoom>>

\* track.getCapabilities() of a stream's video track
TrackCapabilities(strs, id) ==
  LET hits == {j \in 1..Len(platformDevices) :
                 /\ platformDevices[j].kind = "videoinput"
                 /\ (strs[id].dev = 0 \/ platformDevices[j].deviceId = strs[id].dev)}
  IN platformDevices[CHOOSE j \in hits : \A k \in hits : j <= k]

\* the capability set startCamera's delayed probe builds (x || 1, x || 0.1)
ProbedCapabilities(track) ==
  [flash |-> track.torch,
   zoomSupported |-> track.zoomCap # NoZoom,
   min |-> IF track.zoomCap.min # 0 THEN track.zoomCap.min ELSE 10,
   max |-> IF track.zoomCap.max # 0 THEN track.zoomCap.max ELSE 10,
   step |-> IF track.zoomCap.step # 0 THEN track.zoomCap.step ELSE 1]

\* the 500 ms probe of stream id fires
ProbeFires ==
  \E id \in probes :
    LET track == TrackCapabilities(streams, id)
    IN /\ probes' = probes \ {id}
       /\ capabilities' = IF camMounted THEN ProbedCapabilities(track) ELSE capabilities
       /\ zoom' = IF ~camMounted THEN zoom
                  ELSE IF track.zoomCap # NoZoom THEN track.zoomCap.min ELSE 10
       /\ UNCHANGED <<loopVars, cropVars, svcVars, swVars, appVars, applies, camMounted, platformDevices, streams,
                      pendingMedia, gumCalls, streamRef, cameraError, devices,
                      currentDeviceId, isFlashOn>>

\* levels a caller may ask setZoom for: 0, 1, 2.5, 4 and 10
ZoomRequests == {0, 10, 25, 40, 100}

\* the observable zoom after setZoom(value)
ZoomAfterSet(value) == value

\* applyConstraints calls one run may leave pending at a time
MaxApplies == 1

\* a pending track.applyConstraints: what it sets, to what, on which stream
Apply(kind, value, stream) == [kind |-> kind, value |-> value, stream |-> stream]

\* (variant) the zoom guard does not look at the capability set
SetZoomRefuses_IgnoresCapability == streamRef = 0

\* setZoomValue's guard
SetZoomRefuses == ~capabilities.zoomSupported \/ streamRef = 0

\* setZoom(value) of the hook (setZoomValue): the state first, then the
\* hardware apply on the held stream's track
SetZoom(value) ==
  /\ camMounted
  /\ Len(applies) < MaxApplies
  /\ IF SetZoomRefuses
     THEN UNCHANGED <<zoom, applies>>
     ELSE /\ zoom' = ZoomAfterSet(value)
          /\ applies' = Append(applies, Apply("zoom", value, streamRef))
  /\ UNCHANGED <<loopVars, cropVars, svcVars, swVars, appVars, camMounted, platformDevices, streams,
                 pendingMedia, gumCalls, streamRef, probes, cameraError, devices,
                 currentDeviceId, capabilities, isFlashOn>>

SetZoomValue == \E value \in ZoomRequests : SetZoom(value)

\* (variant) the torch guard does not look at the capability set
ToggleFlashRefuses_IgnoresCapability == streamRef = 0

\* toggleFlash's guard
ToggleFlashRefuses == ~capabilities.flash \/ streamRef = 0

\* toggleFlash up to its await: applyConstraints with torch: !isFlashOn on
\* the held stream's track
ToggleFlash ==
  /\ camMounted
  /\ Len(applies) < MaxApplies
  /\ applies' = IF ToggleFlashRefuses THEN applies
                ELSE Append(applies, Apply("torch", ~isFlashOn, streamRef))
  /\ UNCHANGED <<loopVars, cropVars, svcVars, swVars, appVars, camMounted, platformDevices, streams,
                 pendingMedia, gumCalls, streamRef, probes, cameraError, devices,
                 currentDeviceId, capabilities, isFlashOn, zoom>>

\* applyConstraints i resolves (ok) or rejects: toggleFlash records the new
\* flash state on success, setZoomValue only logs a failure
ApplySettle(i, ok) ==
  /\ i \in 1..Len(applies)
  /\ applies' = RemoveAt(applies, i)
  /\ isFlashOn' = IF applies[i].kind = "torch" /\ ok /\ camMounted
                  THEN applies[i].value ELSE isFlashOn
  /\ UNCHANGED <<loopVars, cropVars, svcVars, swVars, appVars, camMounted, platformDevices, streams,
                 pendingMedia, gumCalls, streamRef, probes, cameraError, devices,
                 currentDeviceId, capabilities, zoom>>

ApplySettles == \E i \in 1..Len(applies), ok \in BOOLEAN : ApplySettle(i, ok)

\* the component unmounts (close, capture): the device effect's cleanup
UnmountCamera ==
  /\ camMounted
  /\ camMounted' = FALSE
  /\ streams' = StopTracks(streams, streamRef)
  /\ streamRef' = 0
  /\ UNCHANGED <<loopVars, cropVars, svcVars, swVars, appVars, applies, platformDevices, pendingMedia, gumCalls, probes,
                 cameraError, devices, currentDeviceId, capabilities, isFlashOn, zoom>>

NextCamera ==
  \/ PermissionGranted
  \/ EnumerationFails
  \/ DevicesListed
  \/ OpenResolves
  \/ OpenFails
  \/ SwitchCamera
  \/ TryAgain
  \/ ProbeFires
  \/ SetZoomValue
  \/ ToggleFlash
  \/ ApplySettles
  \/ UnmountCamera

(***************************************************************************)
(* The crop arithmetic (handleVideoClick, identifyFrame)                   *)
(*                                                                         *)
(* Lengths are CSS or frame pixels.  A crop origin is the exact fraction   *)
(* sxNum / rectWidth (syNum / rectHeight): the code divides by the shown   *)
(* size, the model keeps the numerator.                                    *)
(***************************************************************************)

\* native frame sizes of the video, <<videoWidth, videoHeight>>
VideoSizes == {<<640, 480>>, <<1280, 720>>, <<1920, 1080>>, <<480, 640>>}

\* sizes the video element is shown at, <<rect.width, rect.height>>
DisplaySizes == {<<320, 240>>, <<640, 360>>, <<360, 640>>}

\* taps are tried at the multiples of 1/TapGrid of the shown size, edges included
TapGrid == 4

\* const cropSize = 150
CropSize == 150

\* canvas.width = 640
FrameWidth == 640

Max(a, b) == IF a >= b THEN a ELSE b

NoCrop == [set |-> FALSE, sxNum |-> 0, syNum |-> 0, sWidth |-> 0, sHeight |-> 0]

\* handleVideoClick's crop for a tap at (x, y): scaleX = videoWidth /
\* rect.width, sx = Math.max(0, x * scaleX - cropSize / 2), times rect.width
\* (and twice that, to keep cropSize / 2 whole)
CropFor(x, y, vw, vh, rw, rh) ==
  [set |-> TRUE,
   sxNum |-> Max(0, 2 * x * vw - CropSize * rw),
   syNum |-> Max(0, 2 * y * vh - CropSize * rh),
   sWidth |-> CropSize,
   sHeight |-> CropSize]

\* the user taps the shown video at (tapX, tapY)
TapCrop ==
  /\ ~crop.set
  /\ crop' = CropFor(tapX, tapY, videoWidth, videoHeight, rectWidth, rectHeight)
  /\ UNCHANGED <<loopVars, camVars, appVars, svcVars, swVars, videoWidth, videoHeight, rectWidth, rectHeight,
                 tapX, tapY>>

NextCrop == TapCrop

InitCropInputs ==
  /\ \E size \in VideoSizes : videoWidth = size[1] /\ videoHeight = size[2]
  /\ \E size \in DisplaySizes : rectWidth = size[1] /\ rectHeight = size[2]
  /\ tapX \in {(k * rectWidth) \div TapGrid : k \in 0..TapGrid}
  /\ tapY \in {(k * rectHeight) \div TapGrid : k \in 0..TapGrid}
  /\ crop = NoCrop

(***************************************************************************)
(* The application shell (App, ChatView, ConfigErrorView) and the shutter  *)
(* of CameraView                                                           *)
(*                                                                         *)
(* A captured image is the number of its capture, 0 stands for null.  A    *)
(* chat input is the sequence of its characters.  One CameraView instance  *)
(* is followed at a time: the camera view is opened again only when the    *)
(* previous instance has no call in flight and no timer pending.           *)
(***************************************************************************)

\* photos one run may capture
MaxCaptures == 2

\* follow-up questions one run may send
MaxSends == 2

NoImage == 0

\* what the user may type into the chat box
ChatInputs == {<<>>, <<" ">>, <<" ", "h", "i">>}

\* String.prototype.trim, for the blank the inputs use
RECURSIVE TrimStart(_)
TrimStart(str) ==
  IF str # <<>> /\ Head(str) = " " THEN TrimStart(Tail(str)) ELSE str

RECURSIVE TrimEnd(_)
TrimEnd(str) ==
  IF str # <<>> /\ str[Len(str)] = " "
  THEN TrimEnd(SubSeq(str, 1, Len(str) - 1)) ELSE str

Trim(str) == TrimEnd(TrimStart(str))

Message(author, text, id) == [author |-> author, text |-> text, id |-> id]

\* a request of App in flight: getInitialObjectDescription for an image, or
\* getFollowUpAnswer for the user's message newUserMessage, with the
\* messages of the render handleSendMessage was called in as history
AppCall(kind, image, newUserMessage, history) ==
  [kind |-> kind, image |-> image, newUserMessage |-> newUserMessage,
   history |-> history]

GenericMessage == "Failed to communicate with the AI model"

\* err.message of what an oracle call rejects with
ErrorMessage(outcome) ==
  CASE outcome = "config" -> ConfigMessage
    [] outcome = "ratelimit" -> RateLimitMessage
    [] OTHER -> GenericMessage

\* ConfigErrorView: an overlay over the whole page while configError is set;
\* what lies under it receives no input
NoticeBlocksInput == configError # Null

\* the CameraView instance that was unmounted has nothing left to run
CameraViewQuiescent ==
  /\ ~mounted /\ inflight = <<>> /\ realtimeTimers = {}
  /\ ~focusedIdentTimeout /\ ~rateLimitTimeout /\ ~captureTimer

\* a new CameraView instance mounts: its state and refs are fresh
MountCameraView ==
  /\ mounted' = TRUE
  /\ isRealtimeMode' = FALSE
  /\ isIdentifying' = FALSE
  /\ identifiedObject' = Null
  /\ isFocusedIdentification' = FALSE
  /\ focusIndicator' = Null
  /\ rateLimitError' = Null
  /\ realtimeTimers' = {}
  /\ realtimeTimeoutRef' = {}
  /\ focusedIdentTimeout' = FALSE
  /\ rateLimitTimeout' = FALSE
  /\ inflight' = <<>>
  /\ isCapturing' = FALSE
  /\ captureTimer' = FALSE
  /\ UNCHANGED <<videoReady, hasContext, configError>>

\* the "Start Camera" button of the home view
OpenCamera ==
  /\ currentView = "home" /\ ~NoticeBlocksInput /\ CameraViewQuiescent
  /\ currentView' = "camera"
  /\ MountCameraView
  /\ UNCHANGED <<camVars, cropVars, svcVars, swVars, capturedImage, isLoading, messages, error,
                 appCalls, captures, sends>>

\* the close button of CameraView: onClose
CloseCamera ==
  /\ currentView = "camera" /\ ~NoticeBlocksInput
  /\ currentView' = "home"
  /\ UnmountCameraView
  /\ isCapturing' = FALSE
  /\ UNCHANGED <<capturedImage, isLoading, messages, error, appCalls, captures,
                 sends, captureTimer>>

\* the "Real-time AI" button and a tap on the video, under the notice (the
\* application's behaviour does not depend on where the tap lands: one place)
ClickToggle == mounted /\ ~NoticeBlocksInput /\ ToggleRealtime

ClickVideo == mounted /\ ~NoticeBlocksInput /\ HandleVideoClick("p1")

\* the shutter button: CameraView's handleCapture arms the 300 ms flash timer
Shutter ==
  /\ mounted /\ ~NoticeBlocksInput
  /\ ~isCapturing
  /\ captures < MaxCaptures
  /\ isCapturing' = TRUE
  /\ captureTimer' = TRUE
  /\ UNCHANGED <<loopVars, camVars, cropVars, svcVars, swVars, currentView, capturedImage, isLoading,
                 messages, error, appCalls, captures, sends>>

\* the flash timer fires: with the video element still there the frame goes
\* to App's handleCapture (results view, request for the description), and
\* CameraView unmounts with the render that follows
CaptureTimerFires ==
  /\ captureTimer
  /\ captureTimer' = FALSE
  /\ IF mounted
     THEN /\ currentView' = "results"
          /\ capturedImage' = captures + 1
          /\ captures' = captures + 1
          /\ messages' = <<>>
          /\ error' = Null
          /\ isLoading' = TRUE
          /\ appCalls' = Append(appCalls, AppCall("describe", captures + 1, 0, <<>>))
          /\ UnmountCameraView
          /\ isCapturing' = FALSE
          /\ UNCHANGED sends
     ELSE UNCHANGED <<loopVars, camVars, cropVars, svcVars, swVars, currentView, capturedImage,
                      isLoading, messages, error, appCalls, captures, sends,
                      isCapturing>>

\* messages.filter(msg => msg !== newUserMessage)
WithoutMessage(msgs, id) ==
  LET keep(m) == ~(m.author = "user" /\ m.id = id) IN SelectSeq(msgs, keep)

\* App's handleSendMessage(userInput)
HandleSendMessage(userInput) ==
  IF capturedImage = NoImage \/ Trim(userInput) = <<>> \/ isLoading
  THEN UNCHANGED <<messages, isLoading, error, appCalls, sends>>
  ELSE /\ messages' = Append(messages, Message("user", userInput, sends + 1))
       /\ isLoading' = TRUE
       /\ error' = Null
       /\ appCalls' = Append(appCalls,
                              AppCall("followup", capturedImage, sends + 1, messages))
       /\ sends' = sends + 1

\* the chat form is submitted (it is shown once there are messages):
\* ChatView's handleSubmit
SubmitMessage ==
  \E userInput \in ChatInputs :
    /\ currentView = "results" /\ ~NoticeBlocksInput
    /\ Len(messages) > 0
    /\ sends < MaxSends
    /\ IF Trim(userInput) # <<>>
       THEN HandleSendMessage(userInput)
       ELSE UNCHANGED <<messages, isLoading, error, appCalls, sends>>
    /\ UNCHANGED <<loopVars, camVars, cropVars, svcVars, swVars, currentView, capturedImage, captures,
                   isCapturing, captureTimer>>

\* the "New Photo" button: resetState(), then setCurrentView('camera')
NewPhoto ==
  /\ currentView = "results" /\ ~NoticeBlocksInput /\ CameraViewQuiescent
  /\ capturedImage' = NoImage
  /\ isLoading' = FALSE
  /\ messages' = <<>>
  /\ error' = Null
  /\ currentView' = "camera"
  /\ MountCameraView
  /\ UNCHANGED <<camVars, cropVars, svcVars, swVars, appCalls, captures, sends>>

\* (variant) a call that succeeds clears the configuration error
ConfigErrorAfter_ClearedOnSuccess(outcome, current) ==
  IF outcome = "config" THEN ErrorMessage(outcome)
  ELSE IF outcome = "ok" THEN Null ELSE current

\* configError after a call of App settled: only the ConfigError branch of
\* the two catches writes it
ConfigErrorAfter(outcome, current) ==
  IF outcome = "config" THEN ErrorMessage(outcome) ELSE current

\* request i of App settles: the rest of handleCapture or handleSendMessage
AppCallSettle(i, outcome) ==
    LET c == appCalls[i]
    IN /\ i \in 1..Len(appCalls)
       /\ appCalls' = RemoveAt(appCalls, i)
       /\ isLoading' = FALSE
       /\ configError' = ConfigErrorAfter(outcome, configError)
       /\ error' = IF outcome \in {"ok", "config"} THEN error ELSE ErrorMessage(outcome)
       /\ messages' =
            IF c.kind = "describe"
            THEN IF outcome = "ok" THEN <<Message("ai", <<"d">>, 0)>> ELSE messages
            ELSE IF outcome = "ok" THEN Append(messages, Message("ai", <<"a">>, 0))
            ELSE IF outcome = "config" THEN messages
            ELSE WithoutMessage(messages, c.newUserMessage)
       /\ UNCHANGED <<camVars, cropVars, svcVars, swVars, mounted, isRealtimeMode, isIdentifying,
                      identifiedObject, isFocusedIdentification, focusIndicator,
                      rateLimitError, realtimeTimers, realtimeTimeoutRef,
                      focusedIdentTimeout, rateLimitTimeout, inflight, videoReady,
                      hasContext, currentView, capturedImage, captures, sends,
                      isCapturing, captureTimer>>

AppCallSettles ==
  \E i \in 1..Len(appCalls), outcome \in Outcomes : AppCallSettle(i, outcome)

NextApp ==
  \/ OpenCamera
  \/ CloseCamera
  \/ ClickToggle
  \/ ClickVideo
  \/ RealtimeTimerFire
  \/ OracleResponds
  \/ FocusedHoldExpires
  \/ RateLimitCooldownExpires
  \/ Shutter
  \/ CaptureTimerFires
  \/ SubmitMessage
  \/ NewPhoto
  \/ AppCallSettles

(***************************************************************************)
(* The oracle client (services/aiService.ts)                               *)
(*                                                                         *)
(* A string is the sequence of its characters; an environment variable is  *)
(* a record that says whether it is defined.  The client ai is the key it  *)
(* was constructed with.  One call is followed at a time.                  *)
(***************************************************************************)

\* requests one run may send to the remote
MaxRequests == 2

\* parts a failure message of the remote may be put together from
MaxFragments == 2

EnvVar(defined, chars) == [defined |-> defined, chars |-> chars]

Undefined == EnvVar(FALSE, <<>>)

Placeholder == <<"Y", "O", "U", "R", "_", "A", "P", "I", "_", "K", "E", "Y">>

\* values the two key variables are tried with: undefined, empty, blank,
\* the placeholder alone, inside other text and in lower case, and real keys
KeyValues ==
  {Undefined,
   EnvVar(TRUE, <<>>),
   EnvVar(TRUE, <<" ">>),
   EnvVar(TRUE, <<" ", " ">>),
   EnvVar(TRUE, Placeholder),
   EnvVar(TRUE, <<"k">> \o Placeholder \o <<"9">>),
   EnvVar(TRUE, <<"y", "o", "u", "r", "_", "a", "p", "i", "_", "k", "e", "y">>),
   EnvVar(TRUE, <<"A", "I", "z", "a">>),
   EnvVar(TRUE, <<" ", "A", "I", "z", "a", " ">>)}

\* a value that is not falsy
Truthy(v) == v.defined /\ v.chars # <<>>

NoKey == EnvVar(FALSE, <<"C", "o", "n", "f", "i", "g", "E", "r", "r", "o", "r">>)

\* (variant) the placeholder is not looked for
GetApiKey_AcceptsPlaceholder(vite, env) ==
  LET fromVite == IF Truthy(vite) THEN vite ELSE Undefined
      apiKey == IF ~Truthy(fromVite) /\ Truthy(env) THEN env ELSE fromVite
  IN IF Truthy(apiKey) /\ Trim(apiKey.chars) # <<>> THEN apiKey ELSE NoKey

\* getApiKey: VITE_API_KEY first, then API_KEY; NoKey stands for the throw
\* of ConfigError
GetApiKey(vite, env) ==
  LET fromVite == IF Truthy(vite) THEN vite ELSE Undefined
      apiKey == IF ~Truthy(fromVite) /\ Truthy(env) THEN env ELSE fromVite
  IN IF /\ Truthy(apiKey) /\ Trim(apiKey.chars) # <<>>
        /\ ~Includes(apiKey.chars, Placeholder)
     THEN apiKey ELSE NoKey

NoClient == Undefined

MarkInvalidKey == <<"A", "P", "I", " ", "k", "e", "y", " ", "n", "o", "t", " ", "v", "a", "l", "i", "d">>
MarkPermission == <<"p", "e", "r", "m", "i", "s", "s", "i", "o", "n", " ", "t", "o", " ", "a", "c", "c", "e", "s", "s">>
Mark400 == <<"4", "0", "0">>
MarkExhausted == <<"R", "E", "S", "O", "U", "R", "C", "E", "_", "E", "X", "H", "A", "U", "S", "T", "E", "D">>
Mark429 == <<"4", "2", "9">>
MarkQuota == <<"e", "x", "c", "e", "e", "d", "e", "d", " ", "y", "o", "u", "r", " ", "c", "u", "r", "r", "e", "n", "t", " ", "q", "u", "o", "t", "a">>
Filler == <<"x", "1">>

Fragments ==
  {MarkInvalidKey, MarkPermission, Mark400, MarkExhausted, Mark429, MarkQuota, Filler}

EmptyResponse == <<"T", "h", "e", " ", "A", "I", " ", "r", "e", "t", "u", "r", "n", "e", "d", " ", "a", "n", " ", "e", "m", "p", "t", "y", " ", "r", "e", "s", "p", "o", "n", "s", "e", ".">>

RECURSIVE Concat(_)
Concat(parts) == IF parts = <<>> THEN <<>> ELSE Head(parts) \o Concat(Tail(parts))

\* failure messages the remote may reject a request with
RawMessages ==
  {Concat(parts) : parts \in UNION {[1..n -> Fragments] : n \in 0..MaxFragments}}

\* what fetch rejects with when the network is down (Chrome, Safari, Firefox)
NetworkFailureMessages ==
  {<<"F", "a", "i", "l", "e", "d", " ", "t", "o", " ", "f", "e", "t", "c", "h">>,
   <<"L", "o", "a", "d", " ", "f", "a", "i", "l", "e", "d">>,
   <<"N", "e", "t", "w", "o", "r", "k", "E", "r", "r", "o", "r", " ", "w", "h", "e", "n", " ", "a", "t", "t", "e", "m", "p", "t", "i", "n", "g", " ", "t", "o", " ", "f", "e", "t", "c", "h", " ", "r", "e", "s", "o", "u", "r", "c", "e", ".">>}

\* (variant) what is not a configuration failure is a rate-limit failure
ClassifyFailure_NoGeneric(message) ==
  IF \/ Includes(message, MarkInvalidKey)
     \/ Includes(message, MarkPermission)
     \/ Includes(message, Mark400)
  THEN "ConfigError"
  ELSE "RateLimitError"

\* generateVisionContent's catch, for an error that is not a ConfigError:
\* the class of what it throws
ClassifyFailure(message) ==
  IF \/ Includes(message, MarkInvalidKey)
     \/ Includes(message, MarkPermission)
     \/ Includes(message, Mark400)
  THEN "ConfigError"
  ELSE IF \/ Includes(message, MarkExhausted)
          \/ Includes(message, Mark429)
          \/ Includes(message, MarkQuota)
  THEN "RateLimitError"
  ELSE "Error"

\* a call of generateVisionContent up to its await: getAi() builds the
\* client on first use, or getApiKey throws and the catch passes it on
CallOracle ==
  /\ ~pending
  /\ requests < MaxRequests
  /\ LET client == IF ai = NoClient THEN GetApiKey(viteKey, envKey) ELSE ai
     IN IF client = NoKey
        THEN /\ thrown' = "ConfigError"
             /\ UNCHANGED <<ai, requests, pending>>
        ELSE /\ ai' = client
             /\ requests' = requests + 1
             /\ pending' = TRUE
             /\ thrown' = "none"
  /\ rawMessage' = <<>>
  /\ UNCHANGED <<loopVars, camVars, cropVars, appVars, swVars, viteKey, envKey>>

\* the remote answers with a text (an empty one is thrown as a plain Error
\* inside the try and classified by the catch)
RemoteAnswers ==
  \E empty \in BOOLEAN :
    /\ pending
    /\ pending' = FALSE
    /\ rawMessage' = IF empty THEN EmptyResponse ELSE <<>>
    /\ thrown' = IF empty THEN ClassifyFailure(EmptyResponse) ELSE "ok"
    /\ UNCHANGED <<loopVars, camVars, cropVars, appVars, swVars, viteKey, envKey, ai, requests>>

\* the remote rejects the request with a failure message
RemoteRejects ==
  \E message \in RawMessages :
    /\ pending
    /\ pending' = FALSE
    /\ rawMessage' = message
    /\ thrown' = ClassifyFailure(message)
    /\ UNCHANGED <<loopVars, camVars, cropVars, appVars, swVars, viteKey, envKey, ai, requests>>

\* the request does not reach the remote: generateContent rejects with the
\* platform's network error
NetworkFails ==
  \E message \in NetworkFailureMessages :
    /\ pending
    /\ pending' = FALSE
    /\ rawMessage' = message
    /\ thrown' = ClassifyFailure(message)
    /\ UNCHANGED <<loopVars, camVars, cropVars, appVars, swVars, viteKey, envKey, ai, requests>>

NextService == CallOracle \/ RemoteAnswers \/ RemoteRejects \/ NetworkFails

(***************************************************************************)
(* The service worker (sw.js)                                              *)
(*                                                                         *)
(* A request is its method and its URL's host and path; a cache maps a    *)
(* URL to the response stored for it.  A fetch event keeps what the        *)
(* handler's closure keeps: the request, the cachedResponse it read, and   *)
(* what the page was answered with.                                        *)
(***************************************************************************)

\* fetch events handed to the worker in one run
MaxFetches == 2

CACHE_NAME == "object-identifier-cache-v1"

\* the cache an earlier release of the worker left behind
OldCacheName == "object-identifier-cache-v0"

AppHost == <<"a", "p", "p", ".", "e", "x", "a", "m", "p", "l", "e">>
FontHost == <<"f", "o", "n", "t", "s", ".", "g", "s", "t", "a", "t", "i", "c", ".", "c", "o", "m">>
ApiHost == <<"g", "e", "n", "e", "r", "a", "t", "i", "v", "e", "l", "a", "n", "g", "u", "a", "g", "e", ".", "g", "o", "o", "g", "l", "e", "a", "p", "i", "s", ".", "c", "o", "m">>
GoogleApis == <<"g", "o", "o", "g", "l", "e", "a", "p", "i", "s", ".", "c", "o", "m">>

Url(host, path) == [host |-> host, path |-> path]

Request(method, url) == [method |-> method, url |-> url]

Response(url, status) == [url |-> url, status |-> status]

\* undefined: no match in the cache, or the value of the caught fetch
NoResponse == Response(Url(<<>>, ""), 0)

\* ASSETS_TO_CACHE
ASSETS_TO_CACHE == {Url(AppHost, "./"), Url(AppHost, "./index.html")}

Urls ==
  ASSETS_TO_CACHE \cup
  {Url(AppHost, "./index.tsx"), Url(FontHost, "./css2"), Url(ApiHost, "./v1beta/models")}

Requests == {Request(method, url) : method \in {"GET", "POST"}, url \in Urls}

\* statuses the network answers with
Statuses == {200, 404}

\* cache.match(request): the stored response of the request's URL
Match(cache, request) ==
  IF \E r \in cache : r.url = request.url
  THEN CHOOSE r \in cache : r.url = request.url
  ELSE NoResponse

\* cache.put(request, response): replaces the entry of the request's URL
Put(cache, request, response) ==
  {r \in cache : r.url # request.url} \cup {response}

\* caches.open(name): the named cache, created empty when it is not there
Open(store, name) ==
  IF name \in DOMAIN store THEN store
  ELSE [n \in DOMAIN store \cup {name} |-> IF n = name THEN {} ELSE store[n]]

\* what the page gets for a fetch event: from where, and the response
Answer(by, response) == [by |-> by, response |-> response]

FetchEvent(request, cachedResponse, answer, network) ==
  [request |-> request, cachedResponse |-> cachedResponse, answer |-> answer,
   network |-> network]

\* the install listener: caches.open(CACHE_NAME), cache.addAll(ASSETS_TO_CACHE).
\* addAll stores all or nothing and rejects, failing the installation, when
\* an asset cannot be fetched.
Install ==
  /\ swState = "parsed"
  /\ LET store == Open(caches, CACHE_NAME)
     IN IF online
        THEN /\ caches' = [store EXCEPT ![CACHE_NAME] =
                             {Response(url, 200) : url \in ASSETS_TO_CACHE}]
             /\ swState' = "installed"
        ELSE /\ caches' = store
             /\ swState' = "redundant"
  /\ UNCHANGED <<loopVars, camVars, cropVars, appVars, svcVars, online, fetchEvents>>

\* the caches the activate listener keeps
KeptCaches(cacheNames) == {cacheName \in cacheNames : cacheName = CACHE_NAME}

\* the activate listener: every cache whose name is not CACHE_NAME is deleted
Activate ==
  /\ swState = "installed"
  /\ caches' = [cacheName \in KeptCaches(DOMAIN caches) |-> caches[cacheName]]
  /\ swState' = "activated"
  /\ UNCHANGED <<loopVars, camVars, cropVars, appVars, svcVars, online, fetchEvents>>

\* the fetch listener's two early returns: no respondWith, the browser
\* handles the request itself
NotHandled(request) ==
  request.method # "GET" \/ Includes(request.url.host, GoogleApis)

\* (variant) network first: the cached response is not returned
Respond_NetworkOnly(cachedResponse, fetched) == fetched

\* return cachedResponse || fetchedResponsePromise
Respond(cachedResponse, fetched) ==
  IF cachedResponse # NoResponse THEN Answer("cache", cachedResponse) ELSE fetched

\* the fetch listener up to its return: cache.match, fetch(event.request)
\* started, the page answered from the cache or left waiting for the network
HandleFetch(request) ==
  /\ swState = "activated"
  /\ Len(fetchEvents) < MaxFetches
  /\ IF NotHandled(request)
     THEN /\ fetchEvents' = Append(fetchEvents,
                 FetchEvent(request, NoResponse, Answer("browser", NoResponse), "none"))
          /\ UNCHANGED caches
     ELSE LET store == Open(caches, CACHE_NAME)
              cachedResponse == Match(store[CACHE_NAME], request)
          IN /\ caches' = store
             /\ fetchEvents' = Append(fetchEvents,
                    FetchEvent(request, cachedResponse,
                               Respond(cachedResponse, Answer("pending", NoResponse)),
                               "pending"))
  /\ UNCHANGED <<loopVars, camVars, cropVars, appVars, svcVars, swState, online>>

FetchArrives == \E request \in Requests : HandleFetch(request)

\* (variant) every network response is stored
Cacheable_AnyStatus(networkResponse) == TRUE

\* the response is stored only when networkResponse.status === 200
Cacheable(networkResponse) == networkResponse.status = 200

\* fetch(event.request) of event i resolves with a response of the status
NetworkResponds(i, status) ==
  LET e == fetchEvents[i]
      networkResponse == Response(e.request.url, status)
      store == Open(caches, CACHE_NAME)
  IN /\ e.network = "pending"
     /\ online
     /\ caches' = IF Cacheable(networkResponse)
                  THEN [store EXCEPT ![CACHE_NAME] = Put(@, e.request, networkResponse)]
                  ELSE caches
     /\ fetchEvents' = [fetchEvents EXCEPT ![i] =
           FetchEvent(e.request, e.cachedResponse,
                      IF e.answer.by = "pending"
                      THEN Answer("network", networkResponse) ELSE e.answer,
                      "done")]
     /\ UNCHANGED <<loopVars, camVars, cropVars, appVars, svcVars, swState, online>>

NetworkAnswers ==
  \E i \in 1..Len(fetchEvents), status \in Statuses : NetworkResponds(i, status)

\* fetch(event.request) of event i rejects: the catch logs and the promise
\* resolves with undefined
NetworkFetchFails ==
  \E i \in 1..Len(fetchEvents) :
    LET e == fetchEvents[i]
    IN /\ e.network = "pending"
       /\ fetchEvents' = [fetchEvents EXCEPT ![i] =
             FetchEvent(e.request, e.cachedResponse,
                        IF e.answer.by = "pending"
                        THEN Answer("network", NoResponse) ELSE e.answer,
                        "failed")]
       /\ UNCHANGED <<loopVars, camVars, cropVars, appVars, svcVars, swState, caches, online>>

\* the device goes offline or comes back
ConnectivityChanges ==
  /\ online' = ~online
  /\ UNCHANGED <<loopVars, camVars, cropVars, appVars, svcVars, swState, caches, fetchEvents>>

NextWorker ==
  \/ Install
  \/ Activate
  \/ FetchArrives
  \/ NetworkAnswers
  \/ NetworkFetchFails
  \/ ConnectivityChanges

\* the worker script just registered, an earlier release's cache in storage
InitWorker ==
  /\ swState = "parsed"
  /\ caches = [n \in {OldCacheName} |-> {Response(Url(AppHost, "./"), 200)}]
  /\ online = TRUE
  /\ fetchEvents = <<>>

InitLoop ==
  /\ mounted = TRUE
  /\ isRealtimeMode = FALSE
  /\ isIdentifying = FALSE
  /\ identifiedObject = Null
  /\ isFocusedIdentification = FALSE
  /\ focusIndicator = Null
  /\ rateLimitError = Null
  /\ realtimeTimers = {}
  /\ realtimeTimeoutRef = {}
  /\ focusedIdentTimeout = FALSE
  /\ rateLimitTimeout = FALSE
  /\ inflight = <<>>
  /\ videoReady = FALSE
  /\ hasContext \in BOOLEAN
  /\ configError = Null

InitCamera ==
  /\ camMounted = TRUE
  /\ platformDevices \in CameraPlatforms
  /\ streams = <<>>
  /\ pendingMedia = <<Pending("permission", 0)>>
  /\ gumCalls = 1
  /\ streamRef = 0
  /\ probes = {}
  /\ cameraError = Null
  /\ devices = <<>>
  /\ currentDeviceId = 0
  /\ capabilities = DefaultCapabilities
  /\ isFlashOn = FALSE
  /\ zoom = 10
  /\ applies = <<>>

InitCrop ==
  /\ videoWidth = 0
  /\ videoHeight = 0
  /\ rectWidth = 0
  /\ rectHeight = 0
  /\ tapX = 0
  /\ tapY = 0
  /\ crop = NoCrop

\* the oracle client before its first call
InitService ==
  /\ viteKey \in KeyValues
  /\ envKey \in KeyValues
  /\ ai = NoClient
  /\ requests = 0
  /\ pending = FALSE
  /\ rawMessage = <<>>
  /\ thrown = "none"

ServiceIdle ==
  InitService /\ viteKey = EnvVar(TRUE, <<"A", "I", "z", "a">>) /\ envKey = Undefined

\* App after construction: the home view
InitApp ==
  /\ currentView = "home"
  /\ capturedImage = NoImage
  /\ isLoading = FALSE
  /\ messages = <<>>
  /\ error = Null
  /\ appCalls = <<>>
  /\ captures = 0
  /\ sends = 0
  /\ isCapturing = FALSE
  /\ captureTimer = FALSE

\* App with the camera view just opened
AppCameraOpen ==
  /\ currentView = "camera"
  /\ capturedImage = NoImage
  /\ isLoading = FALSE
  /\ messages = <<>>
  /\ error = Null
  /\ appCalls = <<>>
  /\ captures = 0
  /\ sends = 0
  /\ isCapturing = FALSE
  /\ captureTimer = FALSE

\* the parts a specification leaves alone
LoopIdle == InitLoop /\ hasContext /\ AppCameraOpen /\ ServiceIdle /\ InitWorker

CameraIdle == InitCamera /\ platformDevices = <<Microphone, FrontCam, BackCam>>

Init == InitLoop /\ CameraIdle /\ InitCrop /\ AppCameraOpen /\ ServiceIdle /\ InitWorker

InitCam == LoopIdle /\ InitCamera /\ InitCrop

Next == NextLoop

Spec == Init /\ [][Next]_vars

\* the loop with its timers firing when due and the oracle answering every
\* call (taps and toggles stay up to the user)
SpecLive ==
  Init /\ [][Next]_vars /\ WF_vars(RealtimeTimerFire) /\ WF_vars(OracleResponds)

SpecCamera == InitCam /\ [][NextCamera]_vars

\* the application from its home view, no CameraView mounted yet; the video
\* shows frames as soon as the camera view opens
InitAppSpec ==
  /\ InitApp /\ CameraIdle /\ InitCrop /\ ServiceIdle /\ InitWorker
  /\ mounted = FALSE
  /\ isRealtimeMode = FALSE
  /\ isIdentifying = FALSE
  /\ identifiedObject = Null
  /\ isFocusedIdentification = FALSE
  /\ focusIndicator = Null
  /\ rateLimitError = Null
  /\ realtimeTimers = {}
  /\ realtimeTimeoutRef = {}
  /\ focusedIdentTimeout = FALSE
  /\ rateLimitTimeout = FALSE
  /\ inflight = <<>>
  /\ videoReady = TRUE
  /\ hasContext = TRUE
  /\ configError = Null

SpecApp == InitAppSpec /\ [][NextApp]_vars

\* the oracle client alone, over the values of the two key variables
InitServiceSpec ==
  /\ InitLoop /\ hasContext /\ AppCameraOpen /\ CameraIdle /\ InitCrop
  /\ InitService /\ InitWorker

SpecService == InitServiceSpec /\ [][NextService]_vars

\* device selection alone: permission is granted, the list is awaited; opens
\* stay pending
InitDevices ==
  /\ LoopIdle /\ InitCrop
  /\ camMounted = TRUE
  /\ platformDevices \in DeviceLists
  /\ streams = <<Stream(0, TRUE, "permission")>>
  /\ pendingMedia = <<Pending("list", 0)>>
  /\ gumCalls = 1
  /\ streamRef = 0
  /\ probes = {}
  /\ cameraError = Null
  /\ devices = <<>>
  /\ currentDeviceId = 0
  /\ capabilities = DefaultCapabilities
  /\ isFlashOn = FALSE
  /\ zoom = 10
  /\ applies = <<>>

NextDevices == DevicesListed \/ SwitchCamera

SpecDevices == InitDevices /\ [][NextDevices]_vars

InitCropSpec == LoopIdle /\ CameraIdle /\ InitCropInputs

SpecCrop == InitCropSpec /\ [][NextCrop]_vars

\* the service worker alone
InitWorkerSpec ==
  /\ InitLoop /\ hasContext /\ AppCameraOpen /\ CameraIdle /\ InitCrop /\ ServiceIdle
  /\ InitWorker

SpecWorker == InitWorkerSpec /\ [][NextWorker]_vars

(***************************************************************************)
(* Properties of the identification loop (checked under Spec)             *)
(***************************************************************************)

\* a step that sends a call to the oracle (no task both settles a call and
\* sends one)
CallIssued == Len(inflight') > Len(inflight)

AmbientCallIssued ==
  /\ Len(inflight') = Len(inflight) + 1
  /\ inflight'[Len(inflight')].scope = "ambient"

Polling == mounted /\ isRealtimeMode

ConfigErrorSettles ==
  \E i \in 1..Len(inflight), name \in ObjectNames : Settle(i, "config", name)

AmbientRateLimitSettles ==
  \E i \in 1..Len(inflight), name \in ObjectNames :
    inflight[i].scope = "ambient" /\ Settle(i, "ratelimit", name)

\* C1: at most one identification call, ambient or focused, is in flight at
\* any time, over every interleaving of timer fires, taps, toggles and
\* oracle responses.
C1_AtMostOneInFlight == Len(inflight) <= 1

\* C1 witness: a focused call is in flight while an ambient loop of the same
\* instance has its reschedule timer armed.
C1_Witness ==
  /\ mounted /\ isRealtimeMode
  /\ Len(inflight) = 1 /\ inflight[1].scope = "focused"
  /\ realtimeTimers # {}

\* C4: a call that fails with ConfigError leaves ambient mode off with no
\* reschedule armed, and from then on, as long as the user does not switch
\* ambient mode on again, no step (timer fire, late response, tap) sends a
\* call or arms a reschedule.
C4_ConfigErrorStopsLoop ==
  [][ /\ ConfigErrorSettles => (~Polling' /\ realtimeTimers' = {} /\ ~CallIssued)
      /\ (~Polling /\ ~Polling') => (~CallIssued /\ realtimeTimers' = {})
    ]_vars

\* C4 witness: a ConfigError was reported, ambient mode is off, and a timer
\* (the hold of the focused call that failed) is still to fire.
C4_Witness ==
  /\ mounted /\ configError # Null /\ ~isRealtimeMode
  /\ focusedIdentTimeout /\ isFocusedIdentification /\ inflight = <<>>

\* C5: real-time mode goes from off to on only by the user's toggle, never
\* by the cooldown's end, a timer fire or a late oracle response.
C5_OnlyToggleEnables ==
  [][ (mounted /\ ~isRealtimeMode /\ isRealtimeMode') => ToggleRealtime ]_vars

\* C5 witness: a rate-limit error is held, ambient mode is off and an oracle
\* response is still outstanding.
C5_Witness ==
  /\ mounted /\ rateLimitError # Null /\ ~isRealtimeMode
  /\ rateLimitTimeout /\ Len(inflight) = 1

\* C6: a rate-limit error on an ambient call switches ambient mode off,
\* leaves no reschedule armed and shows the message; the message is held
\* exactly while the cooldown timer is pending; the cooldown's end clears
\* the message, sends no call, arms no reschedule and leaves ambient mode as
\* it was, and ambient mode stays off unless the user toggles it.
C6_RateLimitCooldown ==
  /\ [][ /\ (mounted /\ AmbientRateLimitSettles) =>
              /\ ~isRealtimeMode' /\ realtimeTimers' = {}
              /\ rateLimitError' = RateLimitMessage /\ rateLimitTimeout'
         /\ (mounted /\ RateLimitCooldownExpires) =>
              /\ rateLimitError' = Null /\ ~rateLimitTimeout'
              /\ isRealtimeMode' = isRealtimeMode
              /\ ~CallIssued /\ realtimeTimers' = realtimeTimers
         /\ (mounted /\ rateLimitError # Null /\ ~isRealtimeMode /\ ~ToggleRealtime) =>
              ~isRealtimeMode'
       ]_vars
  /\ [](mounted => ((rateLimitError # Null) <=> rateLimitTimeout))

\* C6 witness: the cooldown after an ambient call's rate-limit error: message
\* shown, cooldown pending, ambient mode off, nothing armed or in flight.
C6_Witness ==
  /\ mounted /\ rateLimitError = RateLimitMessage /\ rateLimitTimeout
  /\ ~isRealtimeMode /\ ~isFocusedIdentification
  /\ realtimeTimers = {} /\ inflight = <<>>

\* ambient polling is running: an ambient call of the current loop is in
\* flight, or a reschedule is armed whose identifyFrame can still send one
PollingLive ==
  \/ \E i \in 1..Len(inflight) :
       inflight[i].scope = "ambient" /\ ~inflight[i].cancelled
  \/ \E t \in realtimeTimers : ~t.cancelled /\ ~t.guard

\* C7 (as claimed): when the hold of a focused result ends and ambient mode
\* is still enabled, the controller resumes ambient polling, for any number
\* of taps, a tap during the hold of an earlier tap included.
C7_HoldEndResumesPolling ==
  [][ (mounted /\ FocusedHoldExpires /\ isRealtimeMode) => PollingLive' ]_vars

\* C29: while a focused (tap-triggered) call is in flight the focused flag
\* is set: no hold timer of an earlier tap clears it under a later tap's
\* call.
C29_FocusedFlagCoversCall ==
  (mounted /\ \E i \in 1..Len(inflight) : inflight[i].scope = "focused")
    => isFocusedIdentification

\* C33: in a mounted CameraView the in-flight flag isIdentifying is set
\* exactly while a call sent by identifyFrame has not settled, and with the
\* oracle answering every call a set flag is cleared again, whatever the
\* call settles with.
C33_FlagTracksCall ==
  /\ [](mounted => (isIdentifying <=> inflight # <<>>))
  /\ (isIdentifying ~> ~isIdentifying)

\* C33 witness: a call was sent, failed with RateLimitError, and the flag is
\* cleared with nothing in flight.
C33_Witness ==
  /\ mounted /\ ~isIdentifying /\ inflight = <<>>
  /\ rateLimitError = RateLimitMessage

\* C34: at most one reschedule timer of the ambient loop is pending at any
\* time, and none is pending while ambient mode is off or a focused
\* identification is active, whatever the order of toggles, taps, timer
\* fires and call completions (a call that settles after its cycle was
\* cancelled included).
C34_OneRescheduleTimer ==
  /\ Cardinality(realtimeTimers) <= 1
  /\ (~isRealtimeMode \/ isFocusedIdentification) => realtimeTimers = {}

\* C34 witness: ambient mode is off, nothing is armed, and the call of the
\* cycle that was cancelled has settled with a label.
C34_Witness ==
  /\ mounted /\ ~isRealtimeMode /\ ~isFocusedIdentification
  /\ identifiedObject # Null /\ inflight = <<>> /\ realtimeTimers = {}

\* C12: switching ambient mode off with the toggle cancels the pending
\* reschedule: the toggle's step sends no call and leaves no timer armed,
\* and while ambient mode stays off no ambient call is sent, whether a call
\* was in flight or a timer was armed when the mode was switched off.
C12_ToggleOffCancels ==
  [][ /\ (mounted /\ isRealtimeMode /\ ToggleRealtime) =>
           (~CallIssued /\ realtimeTimers' = {})
      /\ (mounted /\ ~isRealtimeMode /\ ~isRealtimeMode') => ~AmbientCallIssued
    ]_vars

\* C12 witness: ambient mode was switched off while an ambient call was in
\* flight: the call is still outstanding, its loop is cancelled.
C12_Witness ==
  /\ mounted /\ ~isRealtimeMode /\ realtimeTimers = {}
  /\ Len(inflight) = 1
  /\ inflight[1].scope = "ambient" /\ inflight[1].cancelled

\* C13 (as claimed): once ambient mode is enabled and stays enabled, with no
\* focused identification active, the video showing frames and the oracle
\* answering every call, ambient calls are sent again and again without
\* end, also when the mode was re-enabled while a call of the previous cycle
\* was in flight.
C13_EnabledLoopKeepsPolling ==
  <>[](mounted /\ isRealtimeMode /\ ~isFocusedIdentification
         /\ videoReady /\ hasContext)
    => []<><<AmbientCallIssued>>_vars

\* C14 (as claimed): a response that arrives after ambient mode was
\* switched off (no focused identification active, label cleared) is
\* discarded: identifiedObject stays cleared.
C14_LateResponseDiscarded ==
  [][ (/\ mounted /\ ~isRealtimeMode /\ ~isFocusedIdentification
       /\ identifiedObject = Null /\ OracleResponds)
        => identifiedObject' = Null ]_vars

\* C15: a tap that arrives while an identification call is in flight, or
\* while ambient mode is off, is dropped: it sends no call and leaves the
\* mode, the focused flag, the focus marker, the hold timer and the label
\* as they were.
C15_TapDropped ==
  [][ (/\ mounted /\ (Len(inflight) > 0 \/ ~isRealtimeMode)
       /\ \E p \in TapPoints : HandleVideoClick(p))
        => UNCHANGED <<inflight, isRealtimeMode, isFocusedIdentification,
                       focusIndicator, focusedIdentTimeout, identifiedObject>>
    ]_vars

\* C15 witness: ambient mode is on and an ambient call is in flight, no
\* focus marker shown: a tap made now is dropped.
C15_Witness ==
  /\ mounted /\ isRealtimeMode /\ isIdentifying
  /\ Len(inflight) = 1 /\ inflight[1].scope = "ambient"
  /\ ~isFocusedIdentification /\ focusIndicator = Null /\ ~focusedIdentTimeout

\* C16: a transient failure (empty response, network error) is swallowed:
\* the step that settles the call leaves ambient mode and both error
\* messages as they were and clears the in-flight flag, and for a call of
\* the running ambient loop it arms the 5-second reschedule, whose next
\* attempt is not refused for a stale in-flight flag.
C16_TransientSwallowed ==
  [][ \A i \in 1..Len(inflight) :
        (mounted /\ \E name \in ObjectNames : Settle(i, "transient", name)) =>
          /\ isRealtimeMode' = isRealtimeMode
          /\ rateLimitError' = rateLimitError /\ configError' = configError
          /\ ~isIdentifying'
          /\ (inflight[i].scope = "ambient" /\ ~inflight[i].cancelled) =>
                \E t \in realtimeTimers' :
                  ~t.cancelled /\ ~t.guard /\ realtimeTimeoutRef' = {t}
    ]_vars

\* C16 witness: an ambient call settled without a result and without a
\* message: mode on, no label, no error, flag cleared, reschedule armed.
C16_Witness ==
  /\ mounted /\ isRealtimeMode /\ ~isFocusedIdentification
  /\ videoReady /\ hasContext
  /\ inflight = <<>> /\ ~isIdentifying /\ identifiedObject = Null
  /\ rateLimitError = Null /\ configError = Null
  /\ realtimeTimers = {Closure(FALSE, FALSE)}
  /\ realtimeTimeoutRef = realtimeTimers

\* C17 (as claimed): in every state where the rate-limit message is held
\* (cooldown not yet over), ambient mode is off and no step sends a call.
C17_CooldownExcludesPolling ==
  [][ (mounted /\ rateLimitError # Null) => (~isRealtimeMode /\ ~CallIssued) ]_vars

(***************************************************************************)
(* Properties of the application shell (checked under SpecApp)            *)
(***************************************************************************)

\* a step that sends a request to the oracle: quick label, detailed
\* description or follow-up
RemoteCallIssued ==
  \/ Len(inflight') > Len(inflight)
  \/ Len(appCalls') > Len(appCalls)

\* C18 (as claimed): once a call has failed with ConfigError and the
\* config-error state is set, no step (toggle, tap, capture, chat send,
\* timer) sends another request to the oracle.
C18_ConfigErrorBlocksCalls ==
  [][ configError # Null => ~RemoteCallIssued ]_vars

\* C27: when a follow-up call fails with an error that is not a
\* ConfigError, the user's message of that send is gone from the list, the
\* list is the one the send started from, the error message is set and the
\* loading flag is cleared.
C27_FailedFollowUpRestoresList ==
  [][ \A i \in 1..Len(appCalls), outcome \in {"ratelimit", "transient"} :
        (appCalls[i].kind = "followup" /\ AppCallSettle(i, outcome)) =>
          /\ \A k \in 1..Len(messages') :
               ~(messages'[k].author = "user" /\ messages'[k].id = appCalls[i].newUserMessage)
          /\ messages' = appCalls[i].history
          /\ error' = ErrorMessage(outcome)
          /\ ~isLoading'
    ]_vars

\* a step in which a call fails with ConfigError: a quick label, or a
\* detailed description or follow-up
CallFailsWithConfigError ==
  \/ \E i \in 1..Len(inflight), name \in ObjectNames : Settle(i, "config", name)
  \/ \E i \in 1..Len(appCalls) : AppCallSettle(i, "config")

C31_StaleDescriptionIgnored ==
  [][ \A i \in 1..Len(appCalls), outcome \in Outcomes :
        ( /\ appCalls[i].kind = "describe"
          /\ capturedImage # NoImage
          /\ appCalls[i].image # capturedImage
          /\ AppCallSettle(i, outcome) )
        => (messages' = messages /\ isLoading' = isLoading)
    ]_vars

\* follow-up requests in flight
FollowUpsInFlight == {i \in 1..Len(appCalls) : appCalls[i].kind = "followup"}

\* C32: at most one follow-up request is in flight at a time, and
\* handleSendMessage called while a request is loading, with no captured
\* image or with blank input leaves the message list, the error and the
\* loading flag as they are and sends nothing.
C32_OneFollowUpInFlight ==
  /\ [](Cardinality(FollowUpsInFlight) <= 1)
  /\ [][ \A userInput \in ChatInputs :
           ( /\ HandleSendMessage(userInput)
             /\ (isLoading \/ capturedImage = NoImage \/ Trim(userInput) = <<>>) )
           => UNCHANGED <<messages, error, isLoading, appCalls>>
       ]_vars

(***************************************************************************)
(* Properties of the oracle client (checked under SpecService)            *)
(***************************************************************************)

\* a key variable that holds no usable credential: not set, empty, blank,
\* or with the placeholder in it
InvalidCredential(v) ==
  \/ ~v.defined
  \/ \A i \in 1..Len(v.chars) : v.chars[i] = " "
  \/ \E k \in 1..Len(v.chars) :
       /\ k + Len(Placeholder) - 1 <= Len(v.chars)
       /\ \A j \in 1..Len(Placeholder) : v.chars[k + j - 1] = Placeholder[j]

NoValidCredential == InvalidCredential(viteKey) /\ InvalidCredential(envKey)

\* C19: when neither key variable holds a valid credential (absent, blank
\* or with the placeholder YOUR_API_KEY in it), every oracle call fails with
\* ConfigError, no request goes to the remote and no client is constructed.
C19_NoCredentialNoRequest ==
  /\ [][ (NoValidCredential /\ CallOracle) =>
           /\ thrown' = "ConfigError"
           /\ requests' = requests /\ ~pending'
           /\ ai' = NoClient ]_vars
  /\ [](NoValidCredential => (ai = NoClient /\ requests = 0 /\ ~pending))

\* C19 witness: VITE_API_KEY holds the placeholder inside other text,
\* API_KEY is blank, and a call has failed with ConfigError.
C19_Witness ==
  /\ viteKey = EnvVar(TRUE, <<"k">> \o Placeholder \o <<"9">>)
  /\ envKey = EnvVar(TRUE, <<" ", " ">>)
  /\ thrown = "ConfigError" /\ ai = NoClient /\ requests = 0

\* the failure message carries one of the remote's quota signals
HasQuotaSignal(message) ==
  \/ Includes(message, MarkExhausted)
  \/ Includes(message, Mark429)
  \/ Includes(message, MarkQuota)

\* C20 (as claimed): whenever the remote's failure message contains
\* RESOURCE_EXHAUSTED, 429 or "exceeded your current quota", the call fails
\* with RateLimitError, whatever else the message contains.
C20_QuotaSignalIsRateLimit ==
  HasQuotaSignal(rawMessage) => thrown = "RateLimitError"

ErrorKinds == {"ConfigError", "RateLimitError", "Error"}

\* C21: an empty response and a network failure make the call fail with the
\* generic error, neither ConfigError nor RateLimitError, and every call that
\* fails does so with exactly one of the three kinds.
C21_TransientIsGeneric ==
  /\ [][ (pending /\ ~pending'
           /\ rawMessage' \in {EmptyResponse} \cup NetworkFailureMessages)
            => thrown' = "Error" ]_vars
  /\ [][ (pending /\ ~pending' /\ thrown' # "ok") => thrown' \in ErrorKinds ]_vars
  /\ [][ (CallOracle /\ ~pending') => thrown' = "ConfigError" ]_vars

\* C21 witness: the remote answered with an empty text and the call failed
\* with the generic error.
C21_Witness ==
  /\ ~pending /\ requests > 0
  /\ rawMessage = EmptyResponse /\ thrown = "Error"

(***************************************************************************)
(* Properties of the service worker (checked under SpecWorker)            *)
(***************************************************************************)

\* C26: a GET request whose response is in the worker's cache is answered
\* with that response by the fetch handler itself, on line or off line,
\* and a network fetch that fails afterwards takes no answer back.
C26_CachedGetAnswered ==
  [][ /\ \A request \in Requests :
           ( /\ HandleFetch(request)
             /\ request.method = "GET"
             /\ CACHE_NAME \in DOMAIN caches
             /\ \E r \in caches[CACHE_NAME] : r.url = request.url )
           => /\ fetchEvents'[Len(fetchEvents')].answer.by = "cache"
              /\ fetchEvents'[Len(fetchEvents')].answer.response \in caches[CACHE_NAME]
              /\ fetchEvents'[Len(fetchEvents')].answer.response.url = request.url
      /\ \A i \in 1..Len(fetchEvents) :
           fetchEvents[i].answer.by = "cache" => fetchEvents'[i].answer = fetchEvents[i].answer
    ]_vars

\* C26 witness: off line, the application shell was asked for, answered
\* from the cache, and the handler's network fetch has failed.
C26_Witness ==
  /\ ~online
  /\ \E i \in 1..Len(fetchEvents) :
       /\ fetchEvents[i].request = Request("GET", Url(AppHost, "./index.html"))
       /\ fetchEvents[i].network = "failed"
       /\ fetchEvents[i].answer = Answer("cache", Response(Url(AppHost, "./index.html"), 200))

\* the entries of the current cache (none while it does not exist)
CurrentCache == IF CACHE_NAME \in DOMAIN caches THEN caches[CACHE_NAME] ELSE {}

\* the responses a step adds to the current cache
StoredByStep ==
  (IF CACHE_NAME \in DOMAIN caches' THEN caches'[CACHE_NAME] ELSE {}) \ CurrentCache

\* C36: what the fetch handler stores is the status-200 response of a GET
\* request it is handling, to a host without googleapis.com; it answers from
\* the cache only such requests; and once the worker is activated the only
\* cache left is the one named CACHE_NAME.
C36_CacheHoldsOnlyOwnGets ==
  /\ [][ \A r \in StoredByStep :
           /\ r.status = 200
           /\ ~Includes(r.url.host, GoogleApis)
           /\ \/ Install
              \/ \E i \in 1..Len(fetchEvents) :
                   /\ fetchEvents[i].request = Request("GET", r.url)
                   /\ fetchEvents[i].network = "pending"
       ]_vars
  /\ [](\A r \in CurrentCache : r.status = 200 /\ ~Includes(r.url.host, GoogleApis))
  /\ [](\A i \in 1..Len(fetchEvents) :
         fetchEvents[i].answer.by = "cache" =>
           /\ fetchEvents[i].request.method = "GET"
           /\ ~Includes(fetchEvents[i].request.url.host, GoogleApis))
  /\ [](swState = "activated" => DOMAIN caches = {CACHE_NAME})

\* C36 witness: the activated worker stored the 200 response of a GET for
\* an asset of the application and left a request to the API host to the
\* browser; the earlier release's cache is gone.
C36_Witness ==
  /\ swState = "activated" /\ DOMAIN caches = {CACHE_NAME}
  /\ Response(Url(AppHost, "./index.tsx"), 200) \in CurrentCache
  /\ \E i \in 1..Len(fetchEvents) :
       /\ fetchEvents[i].request.url.host = ApiHost
       /\ fetchEvents[i].answer.by = "browser"

(***************************************************************************)
(* Properties of the capture session (checked under SpecCamera)           *)
(***************************************************************************)

LiveStreams(by) == {i \in 1..Len(streams) : streams[i].live /\ streams[i].by \in by}

\* C2 (as claimed): the previous capture stream is fully released before a
\* new one opens, so no two streams opened by startCamera are live at the
\* same time, also when the device is switched while an open is pending.
C2_OneLiveSession == Cardinality(LiveStreams({"start"})) <= 1

\* C3 (as claimed): once stopCamera has run for teardown and every pending
\* getUserMedia has settled, no stream the hook acquired (by startCamera or
\* by the enumeration effect) has a live track.
C3_AllReleasedAfterTeardown ==
  (~camMounted /\ pendingMedia = <<>>) => LiveStreams({"start", "permission"}) = {}

\* C9 (as claimed): the observable zoom is within the capability range
\* [min, max] after any sequence of setZoom calls.
C9_ZoomWithinRange == capabilities.min <= zoom /\ zoom <= capabilities.max

TorchApplySucceeds ==
  \E i \in 1..Len(applies) : applies[i].kind = "torch" /\ ApplySettle(i, TRUE)

\* C22: toggleFlash does nothing when the capability set marks torch
\* unsupported or no session is held (no constraint applied, no camera state
\* changed); when it does apply, isFlashOn stays as it is until the hardware
\* apply succeeds, and only a successful apply ever switches isFlashOn on.
C22_ToggleFlashGuarded ==
  [][ /\ (ToggleFlash /\ (~capabilities.flash \/ streamRef = 0)) => UNCHANGED camVars
      /\ ToggleFlash => isFlashOn' = isFlashOn
      /\ (\E i \in 1..Len(applies) : ApplySettle(i, FALSE)) => isFlashOn' = isFlashOn
      /\ (~isFlashOn /\ isFlashOn') => TorchApplySucceeds
    ]_vars

\* C22 witness: torch supported, a session held, and a toggleFlash whose
\* apply succeeded has switched the flash on.
C22_Witness ==
  /\ camMounted /\ capabilities.flash /\ streamRef # 0
  /\ isFlashOn /\ applies = <<>>

\* C23: with zoom supported and a session held, setZoom(value) sets the
\* observable zoom to value at once, and the hardware apply, succeed or
\* fail, leaves it there; with zoom unsupported or no session held setZoom
\* changes nothing.
C23_ZoomOptimistic ==
  [][ /\ \A value \in ZoomRequests :
           SetZoom(value) =>
             IF capabilities.zoomSupported /\ streamRef # 0
             THEN zoom' = value
             ELSE UNCHANGED camVars
      /\ \A i \in 1..Len(applies), ok \in BOOLEAN :
           (applies[i].kind = "zoom" /\ ApplySettle(i, ok)) => zoom' = zoom
    ]_vars

\* C23 witness: zoom 2.5 was asked of a session that supports 1 to 4, its
\* apply has settled and the observable zoom is 2.5.
C23_Witness ==
  /\ camMounted /\ capabilities.zoomSupported /\ streamRef # 0
  /\ zoom = 25 /\ applies = <<>>

\* C24: while the held session's delayed probe has not run, the capability
\* set reads torch and zoom as unsupported; once it has run, the capability
\* set is the one probed from the held session's track.
C24_CapabilitiesFollowSession ==
  (camMounted /\ streamRef # 0) =>
    IF streamRef \in probes
    THEN ~capabilities.flash /\ ~capabilities.zoomSupported
    ELSE capabilities = ProbedCapabilities(TrackCapabilities(streams, streamRef))

\* C25: a failed open sets one of the open-error messages and leaves no
\* session held; "Try Again" clears the error and asks the platform for the
\* selected device again; neither touches the identification state.
C25_FailedOpenLeavesNoSession ==
  [][ /\ (OpenFails /\ camMounted) =>
           /\ cameraError' \in {OpenErrorMessage(name) : name \in ErrorNames}
           /\ streamRef' = 0
           /\ UNCHANGED loopVars
      /\ TryAgain =>
           /\ cameraError' = Null
           /\ currentDeviceId # 0 =>
                 pendingMedia' = Append(pendingMedia, Pending("start", currentDeviceId))
           /\ UNCHANGED loopVars
    ]_vars

\* C30: a stream held in streamRef was opened for the selected device:
\* whatever the order of device switches and getUserMedia resolutions, the
\* held session is bound to currentDeviceId.
C30_HeldStreamIsSelectedDevice ==
  (camMounted /\ streamRef # 0) => streams[streamRef].dev = currentDeviceId

\* C35: the flash is recorded as on only while a session is held and the
\* capability set marks torch supported, over every sequence of device
\* switches, capability probes and toggleFlash calls; every call of
\* startCamera resets isFlashOn to false.
C35_FlashOnlyWithTorch ==
  /\ []((camMounted /\ isFlashOn) => (streamRef # 0 /\ capabilities.flash))
  /\ [][ (SwitchCamera /\ currentDeviceId' # currentDeviceId) => ~isFlashOn' ]_vars
  /\ [][ TryAgain => ~isFlashOn' ]_vars

(***************************************************************************)
(* Properties of device selection (checked under SpecDevices)             *)
(***************************************************************************)

\* the label holds "back" in any mix of cases, spelled out letter by letter
HasBackInLabel(label) ==
  \E k \in 0..(Len(label) - 4) :
    /\ label[k + 1] \in {"b", "B"} /\ label[k + 2] \in {"a", "A"}
    /\ label[k + 3] \in {"c", "C"} /\ label[k + 4] \in {"k", "K"}

VideoInputs == {i \in 1..Len(platformDevices) : platformDevices[i].kind = "videoinput"}

BackInputs == {i \in VideoInputs : HasBackInLabel(platformDevices[i].label)}

\* C10: initial device selection picks the first enumerated video input
\* whose label contains "back" in any case when there is one, and the first
\* enumerated video input otherwise.
C10_InitialSelection ==
  [][ (DevicesListed /\ VideoInputs # {}) =>
        \E i \in VideoInputs :
          /\ currentDeviceId' = platformDevices[i].deviceId
          /\ IF BackInputs # {}
             THEN i \in BackInputs /\ \A j \in BackInputs : i <= j
             ELSE \A j \in VideoInputs : i <= j
    ]_vars

\* C10 witness: the list [frontCam, backCam] (label "Back") was enumerated
\* and backCam is selected.
C10_Witness ==
  /\ Len(devices) = 2
  /\ devices[1].label = LabelFront /\ devices[2].label = LabelBackCap
  /\ currentDeviceId = devices[2].deviceId
  /\ pendingMedia = <<Pending("start", devices[2].deviceId)>>

\* the device selected after k presses of the switch button
RECURSIVE SwitchTimes(_, _, _)
SwitchTimes(devs, id, k) ==
  IF k = 0 THEN id ELSE SwitchTimes(devs, NextDeviceId(devs, id), k - 1)

\* C11: switchCamera selects the device at (current index + 1) modulo the
\* device count, so as many switches as there are devices (two or more) lead
\* back to the starting device; with fewer than two devices it leaves the
\* selection as it is.
C11_SwitchIsCyclic ==
  /\ [][ SwitchCamera =>
           IF Len(devices) >= 2
           THEN FindIndex(devices, currentDeviceId')
                  = (FindIndex(devices, currentDeviceId) + 1) % Len(devices)
           ELSE currentDeviceId' = currentDeviceId ]_vars
  /\ []((Len(devices) >= 2 /\ currentDeviceId # 0) =>
          SwitchTimes(devices, currentDeviceId, Len(devices)) = currentDeviceId)

\* C11 witness: with [frontCam, backCam] the selection started at backCam,
\* one switch opened frontCam and a second one opened backCam again.
C11_Witness ==
  /\ Len(devices) = 2
  /\ devices[1].label = LabelFront /\ devices[2].label = LabelBackCap
  /\ pendingMedia = <<Pending("start", devices[2].deviceId),
                      Pending("start", devices[1].deviceId),
                      Pending("start", devices[2].deviceId)>>
  /\ currentDeviceId = devices[2].deviceId

(***************************************************************************)
(* Properties of the crop arithmetic (checked under SpecCrop)             *)
(***************************************************************************)

\* C8 (as claimed): the crop rectangle of a tap inside or on the edge of the
\* shown video lies within the working frame it is read from, 640 wide and
\* 640 / aspect high: sx + sWidth <= 640 and sy + sHeight <= 640 * videoHeight
\* / videoWidth (origins are never negative).
C8_CropWithinFrame ==
  crop.set =>
    /\ crop.sxNum >= 0 /\ crop.syNum >= 0
    /\ crop.sxNum + 2 * crop.sWidth * rectWidth <= 2 * FrameWidth * rectWidth
    /\ (crop.syNum + 2 * crop.sHeight * rectHeight) * videoWidth
         <= 2 * FrameWidth * videoHeight * rectHeight

====
